---- MODULE Spec2Model ----
(***************************************************************************)
(* Model of the dwv url loading scheduler (UrlsLoader, io/urlsLoader.js)   *)
(* driving the JSON text loader (JSONTextLoader, io/jsonTextLoader.js).    *)
(*                                                                         *)
(* The program is single threaded: every action below is one JavaScript    *)
(* task run to completion (a call of load or abort by the owner, or the    *)
(* events the transport raises when one XMLHttpRequest ends).              *)
(***************************************************************************)
EXTENDS Integers, Sequences, FiniteSets, TLC

\* Largest number of urls handed to one load call.
MaxN == 3
\* Largest number of top level abort() calls by the owner.
MaxAborts == 2

VARIABLES
  pc,            \* "idle" before load is called, "called" once it returned or threw
  arg,           \* the data argument load was called with
  opts,          \* the options argument load was called with
  threw,         \* the error load raised synchronously, "none" if it returned
  inputData,     \* UrlsLoader.#inputData (<<>> stands for null)
  requests,      \* UrlsLoader.#requests: the XMLHttpRequest of each index
  runningLoader, \* UrlsLoader.#runningLoader ("null" or the loader's name)
  nLoad,         \* UrlsLoader.#nLoad
  nLoadend,      \* UrlsLoader.#nLoadend
  aborting,      \* UrlsLoader.#aborting
  lastRun,       \* lastRunRequestIndex of the #loadUrls closure (0 based)
  isLoading,     \* JSONTextLoader.#isLoading
  dirReq,        \* the DICOMDIR request of #loadDicomDir: "none", "sent", "done"
  dirList,       \* what the response of the DICOMDIR request parsed to
  earlierRequests, \* the XMLHttpRequests of the load call before the last one
  earlierLastRun,  \* lastRunRequestIndex of that call's #loadUrls closure
  jsonLoader,    \* a JSONTextLoader used on its own: flag, events, calls
  canLoad,       \* a call of JSONTextLoader.canLoadUrl: arguments and result
  merge,         \* successive calls of mergeObjects: keys, ids, result
  loaderList,    \* the registered loaders (loaderList), in registration order
  log,           \* history: the callbacks and internal calls, in order
  ops            \* history: the tasks run so far, in order

vars == <<pc, arg, opts, threw, inputData, requests, runningLoader, nLoad,
          nLoadend, aborting, lastRun, isLoading, dirReq, dirList, loaderList,
          earlierRequests, earlierLastRun, jsonLoader, canLoad, merge,
          log, ops>>

\* What belongs to the functions checked on their own.
standalone == <<jsonLoader, canLoad, merge>>

\* What belongs to the load call before the last one.
earlier == <<earlierRequests, earlierLastRun>>

----------------------------------------------------------------------------
\* The program state as one record, threaded through the sequential code.

St ==
  [inputData |-> inputData, requests |-> requests,
   runningLoader |-> runningLoader, nLoad |-> nLoad, nLoadend |-> nLoadend,
   aborting |-> aborting, lastRun |-> lastRun, isLoading |-> isLoading,
   dirReq |-> dirReq, threw |-> threw, log |-> log, loaderList |-> loaderList]

Install(s) ==
  /\ inputData' = s.inputData
  /\ requests' = s.requests
  /\ runningLoader' = s.runningLoader
  /\ nLoad' = s.nLoad
  /\ nLoadend' = s.nLoadend
  /\ aborting' = s.aborting
  /\ lastRun' = s.lastRun
  /\ isLoading' = s.isLoading
  /\ dirReq' = s.dirReq
  /\ threw' = s.threw
  /\ log' = s.log

\* One entry of the history: a callback of the owner (onloadstart, onprogress,
\* onloaditem, onload, onloadend, onerror, onabort), or an internal call
\* (select, send, load, decode, addLoadend, abort(), uncaught). src is the index of the
\* resource the entry is about, 0 when it carries none.
Emit(s, e, i, x) ==
  [s EXCEPT !.log = Append(@, [ev |-> e, src |-> i, info |-> x])]

Min(a, b) == IF a <= b THEN a ELSE b


----------------------------------------------------------------------------
\* Inputs.

\* The urls of the model: one the JSON text loader accepts, one it does not,
\* and a DICOMDIR manifest.
JsonUrl == "a.json"
BinUrl == "a.bin"
DicomDirUrl == "DICOMDIR"

\* getFileExtension of the url's path.
FileExtension(url) ==
  CASE url = JsonUrl -> "json"
    [] url = BinUrl -> "bin"
    [] OTHER -> ""

\* The states of an XMLHttpRequest, by what the transport allows next:
\*   "opened"  open() was called, send() was not (readyState 1)
\*   "sent"    send() was called, the request is in flight (readyState 1..3)
\*   "done"    the request ended (readyState 4)
\*   "unsent"  abort() ended it and reset it (readyState 0)
XhrStates == {"opened", "sent", "done", "unsent"}

\* readyState === 4
IsDone(x) == x = "done"

\* The response statuses the transport delivers with a load event.
Statuses == {200, 0, 404}

\* The status as the history records it with a load event.
StatusClass(status) == IF status = 200 \/ status = 0 THEN "success" ELSE "404"

\* What the owner's handlers do while the loader decodes one item:
\*   "ok"              they all return
\*   "progressThrows"  onprogress throws
\*   "itemThrows"      onloaditem throws
\*   "itemAborts"      onloaditem calls abort() and returns
DecodeBehaviours == {"ok", "progressThrows", "itemThrows", "itemAborts"}

\* The behaviours the scheduler can tell apart: a throw of onprogress and a
\* throw of onloaditem both end the decode in the loader's catch block with
\* no item counted, so one of them stands for both.
SchedulerBehaviours == DecodeBehaviours \ {"progressThrows"}

RECURSIVE SeqsUpTo(_, _)
SeqsUpTo(S, n) ==
  IF n = 0 THEN {<<>>}
  ELSE LET shorter == SeqsUpTo(S, n - 1)
       IN shorter \cup {Append(q, x) : q \in {r \in shorter : Len(r) = n - 1}, x \in S}

\* The data argument of load: undefined, or a list of urls.
Undefined == [defined |-> FALSE, urls |-> <<>>]
DirectData ==
  {Undefined} \cup {[defined |-> TRUE, urls |-> u] : u \in SeqsUpTo({JsonUrl, BinUrl}, MaxN)}

\* The options argument of load: batchSize, when it is defined.
Options ==
  {[hasBatchSize |-> FALSE, batchSize |-> 0]}
    \cup {[hasBatchSize |-> TRUE, batchSize |-> k] : k \in 1..MaxN}

----------------------------------------------------------------------------
\* UrlsLoader: counters.

\* Mutant of AddLoadend: the load ends are compared with the number of
\* items, not with twice that number.
AddLoadendCountsOnce(s, i, why) ==
  LET s1 == Emit([s EXCEPT !.nLoadend = @ + 1], "addLoadend", i, why)
  IN IF s1.nLoadend = Len(s1.inputData)
     THEN Emit(s1, "onloadend", 0, "")
     ELSE s1

\* #addLoadend: count one load end, call onloadend when all is run.
\* i names the item the call is made for (history only).
AddLoadend(s, i, why) ==
  LET s1 == Emit([s EXCEPT !.nLoadend = @ + 1], "addLoadend", i, why)
  IN IF s1.nLoadend = 2 * Len(s1.inputData)
     THEN Emit(s1, "onloadend", 0, "")
     ELSE s1

\* Mutant of AddLoad: onload is called on the first loaded item.
AddLoadOnFirstItem(s) ==
  LET s1 == [s EXCEPT !.nLoad = @ + 1]
  IN IF s1.nLoad = 1
     THEN Emit(s1, "onload", 0, "")
     ELSE s1

\* #addLoad: count one loaded item, call onload when all are loaded.
AddLoad(s) ==
  LET s1 == [s EXCEPT !.nLoad = @ + 1]
  IN IF s1.nLoad = Len(s1.inputData)
     THEN Emit(s1, "onload", 0, "")
     ELSE s1

----------------------------------------------------------------------------
\* The transport.

\* XMLHttpRequest.send of #requests[r] (r is 0 based): an opened request
\* goes in flight; in any other state send() throws InvalidStateError.
Send(s, r) ==
  IF s.requests[r + 1] = "opened"
  THEN Emit([s EXCEPT !.requests[r + 1] = "sent"], "send", r + 1, "")
  ELSE Emit(s, "uncaught", r + 1, "InvalidStateError")

\* Mutant of RequestOnLoadEnd: the index of the last run request is not
\* incremented before the send.
RequestOnLoadEndNoIncrement(s, i) ==
  LET s1 == AddLoadend(s, i, "fetch")
  IN IF s1.lastRun < Len(s1.requests) - 1 /\ ~s1.aborting
     THEN Send(s1, s1.lastRun)
     ELSE s1

\* Mutant of RequestOnLoadEnd: the last request of the list is never sent.
RequestOnLoadEndSkipsLast(s, i) ==
  LET s1 == AddLoadend(s, i, "fetch")
  IN IF s1.lastRun < Len(s1.requests) - 2 /\ ~s1.aborting
     THEN Send([s1 EXCEPT !.lastRun = @ + 1], s1.lastRun + 1)
     ELSE s1

\* Mutant of RequestOnLoadEnd: the aborting flag is not checked.
RequestOnLoadEndNoAbortCheck(s, i) ==
  LET s1 == AddLoadend(s, i, "fetch")
  IN IF s1.lastRun < Len(s1.requests) - 1
     THEN Send([s1 EXCEPT !.lastRun = @ + 1], s1.lastRun + 1)
     ELSE s1

\* requestOnLoadEnd, the loadend handler of every request of the batch.
RequestOnLoadEnd(s, i) ==
  LET s1 == AddLoadend(s, i, "fetch")
  IN IF s1.lastRun < Len(s1.requests) - 1 /\ ~s1.aborting
     THEN Send([s1 EXCEPT !.lastRun = @ + 1], s1.lastRun + 1)
     ELSE s1

\* Mutant of XhrAbort: the cancelled request raises error instead of abort.
XhrAbortRaisesError(s, i) ==
  IF s.requests[i] = "sent"
  THEN LET s1 == [s EXCEPT !.requests[i] = "done"]
           s2 == Emit(s1, "onerror", i, "transport")
           s3 == RequestOnLoadEnd(s2, i)
       IN [s3 EXCEPT !.requests[i] = "unsent"]
  ELSE s

\* XMLHttpRequest.abort of #requests[i]: a request in flight ends, raises
\* abort (the augmented onabort) and loadend, and is reset to unsent; a
\* request that was not sent, or was reset, raises nothing.
XhrAbort(s, i) ==
  IF s.requests[i] = "sent"
  THEN LET s1 == [s EXCEPT !.requests[i] = "done"]
           s2 == Emit(s1, "onabort", i, "")
           s3 == RequestOnLoadEnd(s2, i)
       IN [s3 EXCEPT !.requests[i] = "unsent"]
  ELSE IF s.requests[i] = "done"
       THEN [s EXCEPT !.requests[i] = "unsent"]
       ELSE s

\* The loop of abort over the stored requests, from index i on.
RECURSIVE AbortRequests(_, _)
AbortRequests(s, i) ==
  IF i > Len(s.requests) THEN s
  ELSE AbortRequests(IF ~IsDone(s.requests[i]) THEN XhrAbort(s, i) ELSE s, i + 1)

\* JSONTextLoader.abort: reset the flag, pass to the listeners.
LoaderAbort(s) ==
  LET s1 == [s EXCEPT !.isLoading = FALSE]
      s2 == Emit(s1, "onabort", 0, "loader")
  IN AddLoadend(s2, 0, "loaderAbort")

\* Mutant of Abort: the loader is aborted whether it is loading or not.
AbortNoBusyCheck(s, from) ==
  LET s1 == Emit([s EXCEPT !.aborting = TRUE], "abort()", 0, from)
      s2 == AbortRequests(s1, 1)
  IN IF s2.runningLoader # "null"
     THEN LoaderAbort(s2)
     ELSE s2

\* UrlsLoader.abort. from names the caller (history only): "owner" between
\* two tasks, or the callback abort() is called from.
Abort(s, from) ==
  LET s1 == Emit([s EXCEPT !.aborting = TRUE], "abort()", 0, from)
      s2 == AbortRequests(s1, 1)
  IN IF s2.runningLoader # "null" /\ s2.isLoading
     THEN LoaderAbort(s2)
     ELSE s2


----------------------------------------------------------------------------
\* JSONTextLoader.

\* canLoadUrl without request headers: the url's extension is json.
CanLoadUrl(url, o) == FileExtension(url) = "json"

\* canLoadUrl of a registered loader. "OtherLoader" stands for a registered
\* loader of another format, which accepts none of the urls of this model.
LoaderCanLoadUrl(loader, url, o) ==
  IF loader = "JSONTextLoader" THEN CanLoadUrl(url, o) ELSE FALSE

\* #addLoadItem, the loader's onload: onloaditem of the owner, then #addLoad.
\* The result is a pair: the state, and whether the handler threw.
AddLoadItem(s, i, beh) ==
  LET s1 == Emit(s, "onloaditem", i, "")
  IN CASE beh = "itemThrows" -> <<s1, TRUE>>
       [] beh = "itemAborts" -> <<AddLoad(Abort(s1, "onloaditem")), FALSE>>
       [] OTHER -> <<AddLoad(s1), FALSE>>

\* JSONTextLoader.load of the payload of index i: onloadstart (a no-op),
\* then onprogress and onload in a try block, onerror if one of them
\* throws, and in the finally block the flag reset and onloadend.
LoaderLoad(s, i, beh) ==
  LET s1 == Emit([s EXCEPT !.isLoading = TRUE], "decode", i, "")
      s2 == Emit(s1, "onprogress", i, "")
      tried == IF beh = "progressThrows" THEN <<s2, TRUE>>
               ELSE AddLoadItem(s2, i, beh)
      s3 == IF tried[2] THEN Emit(tried[1], "onerror", i, "decode")
            ELSE tried[1]
      s4 == [s3 EXCEPT !.isLoading = FALSE]
  IN AddLoadend(s4, i, "decode")

\* Mutant of GetLoadHandler: the response status is not checked.
GetLoadHandlerNoStatusCheck(s, i, status, beh) == LoaderLoad(s, i, beh)

\* The load handler getLoadHandler returns for index i, run on a load event
\* with the given status. getLoadHandler is a function expression called
\* without a receiver, so in the arrow function it returns `this` is
\* undefined: on a failure status, evaluating this.onerror throws a TypeError
\* before onerror or #addLoadend is called, and the exception ends the
\* handler (the transport reports it and goes on to raise loadend).
GetLoadHandler(s, i, status, beh) ==
  IF status # 200 /\ status # 0
  THEN Emit(s, "uncaught", i, "TypeError")
  ELSE LoaderLoad(s, i, beh)

----------------------------------------------------------------------------
\* UrlsLoader.load.

\* #storeInputData
StoreInputData(s, data) ==
  [s EXCEPT !.inputData = data, !.nLoad = 0, !.nLoadend = 0,
            !.aborting = FALSE, !.requests = <<>>, !.runningLoader = "null"]

\* Mutant of CreateRequests: the url is not checked against the loader.
RECURSIVE CreateRequestsNoCheck(_, _, _, _)
CreateRequestsNoCheck(s, data, o, i) ==
  IF i > Len(data) THEN s
  ELSE CreateRequestsNoCheck([s EXCEPT !.requests = Append(@, "opened")], data, o, i + 1)

\* The loop on the urls of #loadUrls, from index i on: check the url
\* against the loader, create, open and store its request.
RECURSIVE CreateRequests(_, _, _, _)
CreateRequests(s, data, o, i) ==
  IF i > Len(data) THEN s
  ELSE IF ~LoaderCanLoadUrl(s.runningLoader, data[i], o)
       THEN [s EXCEPT !.threw = "DifferentType"]
       ELSE CreateRequests([s EXCEPT !.requests = Append(@, "opened")], data, o, i + 1)

\* Mutant of BatchSize: the batchSize option is ignored.
BatchSizeIgnoresOption(o, n) == n

\* The size of the first batch.
BatchSize(o, n) ==
  IF o.hasBatchSize /\ n # 0 THEN Min(o.batchSize, n) ELSE n

\* The launch loop of #loadUrls, from r on (0 based).
RECURSIVE LaunchBatch(_, _, _)
LaunchBatch(s, batchSize, r) ==
  IF r >= batchSize THEN s
  ELSE LaunchBatch(IF ~s.aborting THEN Send([s EXCEPT !.lastRun = r], r) ELSE s,
                   batchSize, r + 1)

\* Mutant of FindLoader: the search does not stop at the first loader that
\* can load the url, the last one wins.
FindLoaderLast(loaders, url, o, l) ==
  LET can == {m \in l..Len(loaders) : LoaderCanLoadUrl(loaders[m], url, o)}
  IN IF can = {} THEN 0 ELSE CHOOSE m \in can : \A n \in can : n <= m

\* The search of #loadUrls for an appropriate loader, from loader l on: the
\* index of the first loader that can load the url, 0 when there is none.
RECURSIVE FindLoader(_, _, _, _)
FindLoader(loaders, url, o, l) ==
  IF l > Len(loaders) THEN 0
  ELSE IF LoaderCanLoadUrl(loaders[l], url, o) THEN l
       ELSE FindLoader(loaders, url, o, l + 1)

\* #storeLoader of the loader found at index l of the list.
StoreLoader(s, l) ==
  Emit([s EXCEPT !.runningLoader = s.loaderList[l]], "select", l, s.loaderList[l])

\* Mutant of LoadUrls: an empty list is an error.
LoadUrlsThrowsOnEmpty(s, data, o) ==
  IF Len(data) = 0 THEN [s EXCEPT !.threw = "EmptyInput"]
  ELSE LET s1 == StoreInputData(s, data)
           l == FindLoader(s1.loaderList, data[1], o, 1)
       IN IF l = 0
          THEN [s1 EXCEPT !.threw = "NoLoader"]
          ELSE LET s2 == StoreLoader(s1, l)
                   s3 == CreateRequests([s2 EXCEPT !.lastRun = 0], data, o, 1)
               IN IF s3.threw # "none" THEN s3
                  ELSE LaunchBatch(s3, BatchSize(o, Len(s3.requests)), 0)

\* #loadUrls
LoadUrls(s, data, o) ==
  IF Len(data) = 0 THEN s
  ELSE LET s1 == StoreInputData(s, data)
           l == FindLoader(s1.loaderList, data[1], o, 1)
       IN IF l = 0
          THEN [s1 EXCEPT !.threw = "NoLoader"]
          ELSE LET s2 == StoreLoader(s1, l)
                   s3 == CreateRequests([s2 EXCEPT !.lastRun = 0], data, o, 1)
               IN IF s3.threw # "none" THEN s3
                  ELSE LaunchBatch(s3, BatchSize(o, Len(s3.requests)), 0)

\* #loadDicomDir: create and send the request of the DICOMDIR.
LoadDicomDir(s, url, o) ==
  Emit([s EXCEPT !.dirReq = "sent"], "send", 0, "DICOMDIR")

\* endsWith(data[0], 'DICOMDIR') || endsWith(data[0], '.dcmdir')
IsDicomDir(url) == url = DicomDirUrl

\* load(data, options). startAborts: the owner's onloadstart calls abort().
\* With data undefined, data.length throws a TypeError after onloadstart.
LoadCall(s, d, o, startAborts) ==
  LET s1 == Emit(s, "onloadstart", 0, "")
      s2 == IF startAborts THEN Abort(s1, "onloadstart") ELSE s1
  IN IF ~d.defined THEN [s2 EXCEPT !.threw = "TypeError"]
     ELSE IF Len(d.urls) = 1 /\ IsDicomDir(d.urls[1])
          THEN LoadDicomDir(s2, d.urls[1], o)
          ELSE LoadUrls(s2, d.urls, o)

----------------------------------------------------------------------------
\* The tasks.

\* A JSONTextLoader as constructed: not loading, no event raised, no call made.
NewJsonLoader == [isLoading |-> FALSE, events |-> <<>>, threw |-> FALSE, calls |-> 0]

\* The options argument of canLoadUrl: undefined, or an object with or
\* without requestHeaders.
NoOptions == [defined |-> FALSE, hasRequestHeaders |-> FALSE, requestHeaders |-> <<>>]

\* No call of canLoadUrl was made.
NoCanLoad == [url |-> "", options |-> NoOptions, done |-> FALSE, result |-> FALSE]

\* No object was given to mergeObjects.
NoMerge == [idKey |-> "", valueKey |-> "", acc |-> <<>>, fed |-> <<>>, threw |-> "none"]

StandaloneInit ==
  /\ jsonLoader = NewJsonLoader
  /\ canLoad = NoCanLoad
  /\ merge = NoMerge

\* The DICOMDIR response before it is parsed, or one that does not parse.
NoList == [parsed |-> FALSE, urls |-> <<>>]

\* The entry of ops for a top level abort() call.
AbortOp == [op |-> "abort", i |-> 0]

NAborts == Cardinality({j \in 1..Len(ops) : ops[j] = AbortOp})

Init ==
  /\ pc = "idle"
  /\ arg = Undefined
  /\ opts = [hasBatchSize |-> FALSE, batchSize |-> 0]
  /\ threw = "none"
  /\ inputData = <<>>
  /\ requests = <<>>
  /\ runningLoader = "null"
  /\ nLoad = 0
  /\ nLoadend = 0
  /\ aborting = FALSE
  /\ lastRun = 0
  /\ isLoading = FALSE
  /\ dirReq = "none"
  /\ dirList = NoList
  /\ earlierRequests = <<>>
  /\ earlierLastRun = 0
  /\ StandaloneInit
  /\ loaderList = <<"JSONTextLoader">>
  /\ log = <<>>
  /\ ops = <<>>

\* The owner calls load.
Load(d, o, startAborts) ==
  /\ pc = "idle"
  /\ pc' = "called"
  /\ arg' = d
  /\ opts' = o
  /\ Install(LoadCall(St, d, o, startAborts))
  /\ ops' = Append(ops, [op |-> "load", i |-> 0])
  /\ UNCHANGED <<loaderList, dirList, earlier, standalone>>

\* The request of index i ends with a response: the transport raises load
\* (the handler of getLoadHandler), then loadend (requestOnLoadEnd).
FetchLoad(i, status, beh) ==
  /\ pc = "called"
  /\ i \in 1..Len(requests)
  /\ requests[i] = "sent"
  /\ (status \notin {200, 0}) => beh = "ok"
  /\ LET s1 == Emit([St EXCEPT !.requests[i] = "done"], "load", i, StatusClass(status))
         s2 == GetLoadHandler(s1, i, status, beh)
     IN Install(RequestOnLoadEnd(s2, i))
  /\ ops' = Append(ops, [op |-> "fetchLoad", i |-> i])
  /\ UNCHANGED <<pc, arg, opts, loaderList, dirList, earlier, standalone>>

\* The request of index i ends with a transport error: the transport raises
\* error (the augmented onerror), then loadend (requestOnLoadEnd).
\* errorAborts: the owner's onerror calls abort().
FetchError(i, errorAborts) ==
  /\ pc = "called"
  /\ i \in 1..Len(requests)
  /\ requests[i] = "sent"
  /\ LET s1 == [St EXCEPT !.requests[i] = "done"]
         s2 == Emit(s1, "onerror", i, "transport")
         s3 == IF errorAborts THEN Abort(s2, "onerror") ELSE s2
     IN Install(RequestOnLoadEnd(s3, i))
  /\ ops' = Append(ops, [op |-> "fetchError", i |-> i])
  /\ UNCHANGED <<pc, arg, opts, loaderList, dirList, earlier, standalone>>

\* The owner calls abort, between two tasks.
AbortCall ==
  /\ pc = "called"
  /\ NAborts < MaxAborts
  /\ Install(Abort(St, "owner"))
  /\ ops' = Append(ops, AbortOp)
  /\ UNCHANGED <<pc, arg, opts, loaderList, dirList, earlier, standalone>>

Next ==
  \/ \E d \in DirectData, o \in Options, startAborts \in BOOLEAN : Load(d, o, startAborts)
  \/ \E i \in 1..MaxN, errorAborts \in BOOLEAN : FetchError(i, errorAborts)
  \/ \E i \in 1..MaxN, status \in Statuses, beh \in SchedulerBehaviours : FetchLoad(i, status, beh)
  \/ AbortCall

Spec == Init /\ [][Next]_vars

----------------------------------------------------------------------------
\* A second load call while requests of the first are in flight. The
\* requests of the first call keep the handlers they were given: the load
\* handler with that call's loader, whose callbacks are #addLoadItem and
\* #addLoadend of this UrlsLoader, and requestOnLoadEnd with that call's
\* lastRunRequestIndex. In the history the items of the first call have
\* their index negated.

\* Largest number of urls handed to each of the two load calls.
MaxReloadN == 2

\* The data argument of the two load calls: urls the loader accepts.
ReloadData ==
  {[defined |-> TRUE, urls |-> u] : u \in SeqsUpTo({JsonUrl}, MaxReloadN) \ {<<>>}}

\* The options argument of the two load calls.
ReloadOptions ==
  {[hasBatchSize |-> FALSE, batchSize |-> 0]}
    \cup {[hasBatchSize |-> TRUE, batchSize |-> k] : k \in 1..MaxReloadN}

\* The number of load calls so far.
NLoads == Cardinality({j \in 1..Len(ops) : ops[j].op = "load"})

\* The owner calls load again, while requests of the first call are in
\* flight: #storeInputData replaces the list of requests (it does not abort
\* them) and resets the counters, the flag and the loader.
Reload(d, o) ==
  /\ pc = "called"
  /\ threw = "none"
  /\ NLoads = 1
  /\ \E i \in 1..Len(requests) : requests[i] = "sent"
  /\ earlierRequests' = requests
  /\ earlierLastRun' = lastRun
  /\ arg' = d
  /\ opts' = o
  /\ Install(LoadCall(St, d, o, FALSE))
  /\ ops' = Append(ops, [op |-> "load", i |-> 0])
  /\ UNCHANGED <<pc, loaderList, dirList, standalone>>

\* requestOnLoadEnd of the first call run for its request i: `this` is the
\* same UrlsLoader, lastRunRequestIndex is the first call's.
EarlierRequestOnLoadEnd(s, i) ==
  RequestOnLoadEnd([s EXCEPT !.lastRun = earlierLastRun], 0 - i)

\* The request i of the first call ends with a response.
EarlierFetchLoad(i, status) ==
  /\ pc = "called"
  /\ i \in 1..Len(earlierRequests)
  /\ earlierRequests[i] = "sent"
  /\ LET s1 == Emit(St, "load", 0 - i, StatusClass(status))
         s2 == GetLoadHandler(s1, 0 - i, status, "ok")
         s3 == EarlierRequestOnLoadEnd(s2, i)
     IN /\ Install([s3 EXCEPT !.lastRun = lastRun])
        /\ earlierLastRun' = s3.lastRun
  /\ earlierRequests' = [earlierRequests EXCEPT ![i] = "done"]
  /\ ops' = Append(ops, [op |-> "earlierFetchLoad", i |-> i])
  /\ UNCHANGED <<pc, arg, opts, loaderList, dirList, standalone>>

\* The request i of the first call ends with a transport error.
EarlierFetchError(i) ==
  /\ pc = "called"
  /\ i \in 1..Len(earlierRequests)
  /\ earlierRequests[i] = "sent"
  /\ LET s1 == Emit(St, "onerror", 0 - i, "transport")
         s2 == EarlierRequestOnLoadEnd(s1, i)
     IN /\ Install([s2 EXCEPT !.lastRun = lastRun])
        /\ earlierLastRun' = s2.lastRun
  /\ earlierRequests' = [earlierRequests EXCEPT ![i] = "done"]
  /\ ops' = Append(ops, [op |-> "earlierFetchError", i |-> i])
  /\ UNCHANGED <<pc, arg, opts, loaderList, dirList, standalone>>

NextReload ==
  \/ \E d \in ReloadData, o \in ReloadOptions : Load(d, o, FALSE)
  \/ \E d \in ReloadData, o \in ReloadOptions : Reload(d, o)
  \/ \E i \in 1..MaxReloadN : FetchError(i, FALSE)
  \/ \E i \in 1..MaxReloadN, status \in Statuses : FetchLoad(i, status, "ok")
  \/ \E i \in 1..MaxReloadN : EarlierFetchError(i)
  \/ \E i \in 1..MaxReloadN, status \in Statuses : EarlierFetchLoad(i, status)

SpecReload == Init /\ [][NextReload]_vars

----------------------------------------------------------------------------
\* JSONTextLoader on its own: load and abort called on one loader whose
\* handlers are set by the caller.

\* The variables of the url loader, which the calls below leave alone.
scheduler ==
  <<pc, arg, opts, threw, inputData, requests, runningLoader, nLoad, nLoadend,
    aborting, lastRun, isLoading, dirReq, dirList, loaderList, earlierRequests,
    earlierLastRun, log, ops>>

\* Largest number of calls of load or abort on the loader.
MaxLoaderCalls == 2

\* What a handler of the caller does when it is called: it returns, it
\* throws, or it calls abort() on the loader and returns.
HandlerOutcomes == {"returns", "throws", "aborts"}

\* The origin argument of load.
Origins == {JsonUrl, BinUrl}

\* The loader l calls the handler e with an event of the given source,
\* index (-1 for none) and error flag. The entry keeps what isLoading()
\* returns when the handler is entered, and what the handler does.
Raise(l, e, src, idx, err, outcome) ==
  [l EXCEPT !.events = Append(@,
     [call |-> l.calls, ev |-> e, source |-> src, index |-> idx,
      error |-> err, loading |-> l.isLoading, outcome |-> outcome])]

\* JSONTextLoader.abort: reset the flag, call onabort and onloadend with
\* an empty event.
JsonAbort(l) ==
  LET l1 == Raise([l EXCEPT !.isLoading = FALSE], "onabort", "", -1, FALSE, "returns")
  IN Raise(l1, "onloadend", "", -1, FALSE, "returns")

\* A call of a handler inside the try block of load: the loader after it,
\* and whether the handler threw.
Handle(l, e, src, idx, outcome) ==
  LET l1 == Raise(l, e, src, idx, FALSE, outcome)
  IN CASE outcome = "throws" -> <<l1, TRUE>>
       [] outcome = "aborts" -> <<JsonAbort(l1), FALSE>>
       [] OTHER -> <<l1, FALSE>>

\* JSONTextLoader.load(text, origin, index): set the flag, call
\* onloadstart; in the try block onprogress then onload; in the catch block
\* onerror; in the finally block reset the flag and call onloadend.
\* b gives what the onprogress and onload handlers do; the other handlers
\* return. What the try block throws is caught, so load returns.
JsonLoad(l, origin, index, b) ==
  LET l0 == [l EXCEPT !.isLoading = TRUE, !.calls = @ + 1, !.threw = FALSE]
      l1 == Raise(l0, "onloadstart", origin, -1, FALSE, "returns")
      p == Handle(l1, "onprogress", origin, index, b.progress)
      q == IF p[2] THEN p ELSE Handle(p[1], "onload", origin, -1, b.load)
      l2 == IF q[2] THEN Raise(q[1], "onerror", origin, -1, TRUE, "returns") ELSE q[1]
  IN Raise([l2 EXCEPT !.isLoading = FALSE], "onloadend", origin, -1, FALSE, "returns")

\* The caller calls load on the loader.
JsonLoaderLoad(origin, index, b) ==
  /\ jsonLoader.calls < MaxLoaderCalls
  /\ jsonLoader' = JsonLoad(jsonLoader, origin, index, b)
  /\ UNCHANGED <<scheduler, canLoad, merge>>

\* The caller calls abort on the loader, between two calls of load.
JsonLoaderAbort ==
  /\ jsonLoader.calls < MaxLoaderCalls
  /\ jsonLoader' = JsonAbort([jsonLoader EXCEPT !.calls = @ + 1])
  /\ UNCHANGED <<scheduler, canLoad, merge>>

NextJsonLoader ==
  \/ \E origin \in Origins, index \in 0..(MaxN - 1),
        b \in [progress : HandlerOutcomes, load : HandlerOutcomes] :
        JsonLoaderLoad(origin, index, b)
  \/ JsonLoaderAbort

SpecJsonLoader == Init /\ [][NextJsonLoader]_vars

----------------------------------------------------------------------------
\* JSONTextLoader.canLoadUrl on its own.

\* Largest number of request headers in the options.
MaxHeaders == 2

\* A string is the sequence of its pieces; the pieces are cut so that one
\* string of the model starts with another exactly when its sequence does.
AppJson == <<"application/", "json">>
DicomJson == <<"application/", "dicom+json">>

\* The values of the request headers.
HeaderValues ==
  {AppJson, DicomJson, AppJson \o <<"; charset=utf-8">>,
   <<"application/", "dicom">>, <<"text/", "plain">>}

\* The request headers.
Headers == [name : {"Accept", "Content-Type"}, value : HeaderValues]

\* The options argument of canLoadUrl.
CanLoadOptions ==
  {NoOptions, [NoOptions EXCEPT !.defined = TRUE]} \cup
  {[defined |-> TRUE, hasRequestHeaders |-> TRUE, requestHeaders |-> h] :
     h \in SeqsUpTo(Headers, MaxHeaders)}

\* startsWith(str, search) of utils/string.
StartsWith(str, search) ==
  Len(search) <= Len(str) /\ SubSeq(str, 1, Len(search)) = search

\* isJson of canLoadUrl: the three tests are joined with &&.
IsJson(element) ==
  /\ element.name = "Accept"
  /\ StartsWith(element.value, AppJson)
  /\ StartsWith(element.value, DicomJson)

\* JSONTextLoader.canLoadUrl(url, options): with options.requestHeaders,
\* whether find(isJson) finds a header; without, whether the extension of
\* the url's path is json.
JsonCanLoadUrl(url, options) ==
  IF options.defined /\ options.hasRequestHeaders
  THEN \E k \in 1..Len(options.requestHeaders) : IsJson(options.requestHeaders[k])
  ELSE FileExtension(url) = "json"

InitCanLoad ==
  /\ pc = "idle"
  /\ arg = Undefined
  /\ opts = [hasBatchSize |-> FALSE, batchSize |-> 0]
  /\ threw = "none"
  /\ inputData = <<>>
  /\ requests = <<>>
  /\ runningLoader = "null"
  /\ nLoad = 0
  /\ nLoadend = 0
  /\ aborting = FALSE
  /\ lastRun = 0
  /\ isLoading = FALSE
  /\ dirReq = "none"
  /\ dirList = NoList
  /\ earlierRequests = <<>>
  /\ earlierLastRun = 0
  /\ loaderList = <<"JSONTextLoader">>
  /\ log = <<>>
  /\ ops = <<>>
  /\ jsonLoader = NewJsonLoader
  /\ merge = NoMerge
  /\ \E url \in {JsonUrl, BinUrl, DicomDirUrl}, o \in CanLoadOptions :
       canLoad = [NoCanLoad EXCEPT !.url = url, !.options = o]

\* canLoadUrl is called with the arguments drawn.
CanLoadUrlCall ==
  /\ ~canLoad.done
  /\ canLoad' = [canLoad EXCEPT !.done = TRUE,
                                !.result = JsonCanLoadUrl(canLoad.url, canLoad.options)]
  /\ UNCHANGED <<scheduler, jsonLoader, merge>>

NextCanLoad == CanLoadUrlCall

SpecCanLoad == InitCanLoad /\ [][NextCanLoad]_vars

----------------------------------------------------------------------------
\* mergeObjects on its own. An object is a function from its keys to its
\* values (the order of the keys is not modelled); a value that is not an
\* entry object carries its type: number, string, array, object or null.

\* Largest number of successive merges into one object.
MaxMerges == 2

Num(n) == [t |-> "num", v |-> n]
Str(s) == [t |-> "str", v |-> s]
Arr(a) == [t |-> "arr", v |-> a]
Obj(o) == [t |-> "obj", v |-> o]
Null == [t |-> "null", v |-> 0]

\* a === b for two values: primitives by value; two objects or arrays met
\* in a merge come from different places and are never the same object.
StrictEq(a, b) ==
  /\ a.t = b.t
  /\ a.t \in {"num", "str", "null"}
  /\ a.t = "null" \/ a.v = b.v

\* isObject of a value.
IsObject(a) == a.t \in {"obj", "arr"}

\* The ids, the keys and the data values of the objects merged.
MergeIds == 0..MaxMerges
IdKeys == {"id", "InstanceNumber"}
ValueKeys == {"value", "val"}
DataValues == {"abc", "def"}

\* An unmerged object: {idKey: {valueKey: id}, key0: {valueKey: v}}.
UnmergedObject(idKey, valueKey, id, v) ==
  (idKey :> (valueKey :> Num(id))) @@ ("key0" :> (valueKey :> Str(v)))

\* The entry of the result for a key that is not the id key (the body of
\* the loop on the keys): the entry of obj1 when the two values are the
\* same, otherwise an entry holding the values by id. id1 is read after
\* id2 was pushed to it when obj1 is merged.
MergedEntry(obj1, obj2, key, valueKey, mergedObj1, id1, id2) ==
  LET has1 == key \in DOMAIN obj1
      has2 == key \in DOMAIN obj2
      value1 == IF has1 THEN Obj(obj1[key]) ELSE Null
      value2 == IF has2 THEN Obj(obj2[key]) ELSE Null
      subValue1 == IF has1 /\ valueKey \in DOMAIN obj1[key] THEN obj1[key][valueKey] ELSE Null
      subValue2 == IF has2 /\ valueKey \in DOMAIN obj2[key] THEN obj2[key][valueKey] ELSE Null
  IN IF ~StrictEq(subValue2, subValue1)
     THEN IF mergedObj1
          THEN IF IsObject(subValue1)
               THEN valueKey :> Obj((id2.v :> value2) @@ subValue1.v)
               ELSE valueKey :>
                      Obj((id2.v :> value2) @@
                          [j \in {id1.v[k] : k \in 1..Len(id1.v)} \cup {id2.v} |-> value1])
          ELSE valueKey :> Obj((id1.v :> value1) @@ (id2.v :> value2))
     ELSE IF has1 THEN obj1[key] ELSE Null

\* The entries of the result for the keys of the two objects but the id
\* key, which is given to it.
MergedEntries(obj1, obj2, idKey, valueKey, mergedObj1, id1, id2, idEntry) ==
  [key \in DOMAIN obj1 \cup DOMAIN obj2 |->
     IF key = idKey THEN idEntry
     ELSE MergedEntry(obj1, obj2, key, valueKey, mergedObj1, id1, id2)]

\* mergeObjects(obj1, obj2, idKey, valueKey): what it throws ("none" when
\* it returns) and the object it returns. The id entry of a first merge is
\* created with the key `value`, whatever valueKey is.
MergeObjects(obj1, obj2, idKey, valueKey) ==
  IF idKey = "" THEN [threw |-> "UndefinedIdKey", res |-> <<>>]
  ELSE IF idKey \notin DOMAIN obj1 THEN [threw |-> "IdKeyNotFoundFirst", res |-> <<>>]
  ELSE IF idKey \notin DOMAIN obj2 THEN [threw |-> "IdKeyNotFoundSecond", res |-> <<>>]
  ELSE IF valueKey = "" THEN [threw |-> "UndefinedValueKey", res |-> <<>>]
  ELSE IF valueKey \notin DOMAIN obj1[idKey]
       THEN [threw |-> "IdValueNotFoundFirst", res |-> <<>>]
  ELSE IF valueKey \notin DOMAIN obj2[idKey]
       THEN [threw |-> "IdValueNotFoundSecond", res |-> <<>>]
  ELSE
    LET mergedObj1 == "merged" \in DOMAIN obj1[idKey] /\ obj1[idKey]["merged"]
        id1 == obj1[idKey][valueKey]
        id2 == obj2[idKey][valueKey]
    IN IF mergedObj1
       THEN IF \E k \in 1..Len(id1.v) : id1.v[k] = id2.v
            THEN [threw |-> "AlreadyContains", res |-> <<>>]
            ELSE LET ids == Arr(Append(id1.v, id2.v))
                 IN [threw |-> "none",
                     res |-> MergedEntries(obj1, obj2, idKey, valueKey, TRUE, ids, id2,
                                           [obj1[idKey] EXCEPT ![valueKey] = ids])]
       ELSE IF id1.v = id2.v
            THEN [threw |-> "SameIds", res |-> <<>>]
            ELSE [threw |-> "none",
                  res |-> MergedEntries(obj1, obj2, idKey, valueKey, FALSE, id1, id2,
                            ("value" :> Arr(<<id1.v, id2.v>>)) @@ ("merged" :> TRUE))]

InitMerge ==
  /\ pc = "idle"
  /\ arg = Undefined
  /\ opts = [hasBatchSize |-> FALSE, batchSize |-> 0]
  /\ threw = "none"
  /\ inputData = <<>>
  /\ requests = <<>>
  /\ runningLoader = "null"
  /\ nLoad = 0
  /\ nLoadend = 0
  /\ aborting = FALSE
  /\ lastRun = 0
  /\ isLoading = FALSE
  /\ dirReq = "none"
  /\ dirList = NoList
  /\ earlierRequests = <<>>
  /\ earlierLastRun = 0
  /\ loaderList = <<"JSONTextLoader">>
  /\ log = <<>>
  /\ ops = <<>>
  /\ jsonLoader = NewJsonLoader
  /\ canLoad = NoCanLoad
  /\ \E idKey \in IdKeys, valueKey \in ValueKeys, id \in MergeIds, v \in DataValues :
       merge = [idKey |-> idKey, valueKey |-> valueKey,
                acc |-> UnmergedObject(idKey, valueKey, id, v),
                fed |-> <<id>>, threw |-> "none"]

\* The result of the merges so far is merged with one more unmerged object.
MergeCall(id, v) ==
  /\ merge.threw = "none"
  /\ Len(merge.fed) <= MaxMerges
  /\ LET r == MergeObjects(merge.acc, UnmergedObject(merge.idKey, merge.valueKey, id, v),
                           merge.idKey, merge.valueKey)
     IN merge' = [merge EXCEPT !.acc = IF r.threw = "none" THEN r.res ELSE @,
                               !.fed = Append(@, id),
                               !.threw = r.threw]
  /\ UNCHANGED <<scheduler, jsonLoader, canLoad>>

NextMerge == \E id \in MergeIds, v \in DataValues : MergeCall(id, v)

SpecMerge == InitMerge /\ [][NextMerge]_vars

----------------------------------------------------------------------------
\* The DICOMDIR path: load is called with one url named DICOMDIR, the
\* request of #loadDicomDir ends, and the urls of its file list are loaded.

\* The data argument of load where the DICOMDIR name matters: the DICOMDIR
\* alone, the DICOMDIR among two urls, and one url of another name.
ManifestData ==
  {[defined |-> TRUE, urls |-> u] :
     u \in {<<DicomDirUrl>>, <<DicomDirUrl, JsonUrl>>, <<JsonUrl>>}}

\* getFileListFromDicomDir(response)[0][0] with the root path prepended to
\* each url: the parse fails, or it gives a list of urls, which can be
\* empty and can be one url named DICOMDIR. The root path does not change
\* the name or the extension of a url.
DicomDirContents ==
  {NoList} \cup
  {[parsed |-> TRUE, urls |-> u] :
     u \in SeqsUpTo({JsonUrl, BinUrl}, MaxN) \cup {<<DicomDirUrl>>}}

\* Mutant of DicomDirOnLoad: the options of the load call are not passed on.
DicomDirOnLoadDropsOptions(s, status, content, o) ==
  IF status # 200 /\ status # 0
  THEN Emit(Emit(s, "onerror", 0, "DICOMDIR"), "onloadend", 0, "")
  ELSE IF ~content.parsed
       THEN Emit(s, "uncaught", 0, "ParseError")
       ELSE LET s1 == LoadUrls(s, content.urls, [hasBatchSize |-> FALSE, batchSize |-> 0])
            IN IF s1.threw = "none" THEN s1
               ELSE Emit([s1 EXCEPT !.threw = "none"], "uncaught", 0, s1.threw)

\* request.onload of #loadDicomDir. A failure status calls onerror with
\* the DICOMDIR url as source, then onloadend. Otherwise the response is
\* parsed, with no try block around it, and #loadUrls is called with the
\* urls of the list and the options of the load call; what #loadUrls
\* throws is not caught either.
DicomDirOnLoad(s, status, content, o) ==
  IF status # 200 /\ status # 0
  THEN Emit(Emit(s, "onerror", 0, "DICOMDIR"), "onloadend", 0, "")
  ELSE IF ~content.parsed
       THEN Emit(s, "uncaught", 0, "ParseError")
       ELSE LET s1 == LoadUrls(s, content.urls, o)
            IN IF s1.threw = "none" THEN s1
               ELSE Emit([s1 EXCEPT !.threw = "none"], "uncaught", 0, s1.threw)

\* The DICOMDIR request ends with a response.
ManifestLoad(status, content) ==
  /\ pc = "called"
  /\ dirReq = "sent"
  /\ (status \notin {200, 0}) => content = NoList
  /\ LET s1 == Emit([St EXCEPT !.dirReq = "done"], "load", 0, StatusClass(status))
     IN Install(DicomDirOnLoad(s1, status, content, opts))
  /\ dirList' = content
  /\ ops' = Append(ops, [op |-> "manifestLoad", i |-> 0])
  /\ UNCHANGED <<pc, arg, opts, loaderList, earlier, standalone>>

\* The DICOMDIR request ends with a transport error: request.onerror calls
\* the augmented onerror, then onloadend.
ManifestError ==
  /\ pc = "called"
  /\ dirReq = "sent"
  /\ LET s1 == Emit([St EXCEPT !.dirReq = "done"], "error", 0, "DICOMDIR")
     IN Install(Emit(Emit(s1, "onerror", 0, "DICOMDIR"), "onloadend", 0, ""))
  /\ ops' = Append(ops, [op |-> "manifestError", i |-> 0])
  /\ UNCHANGED <<pc, arg, opts, loaderList, dirList, earlier, standalone>>

NextManifest ==
  \/ \E d \in ManifestData, o \in Options, startAborts \in BOOLEAN : Load(d, o, startAborts)
  \/ \E status \in Statuses, content \in DicomDirContents : ManifestLoad(status, content)
  \/ ManifestError
  \/ \E i \in 1..MaxN, errorAborts \in BOOLEAN : FetchError(i, errorAborts)
  \/ \E i \in 1..MaxN, status \in Statuses, beh \in SchedulerBehaviours : FetchLoad(i, status, beh)
  \/ AbortCall

SpecManifest == Init /\ [][NextManifest]_vars

----------------------------------------------------------------------------
\* The selection of the loader, over several registrations.

\* Registered loader lists: none, one, and two loaders, in both orders.
LoaderLists ==
  {<<>>, <<"OtherLoader">>, <<"JSONTextLoader">>,
   <<"OtherLoader", "JSONTextLoader">>, <<"JSONTextLoader", "JSONTextLoader">>}

InitSelect ==
  /\ pc = "idle"
  /\ arg = Undefined
  /\ opts = [hasBatchSize |-> FALSE, batchSize |-> 0]
  /\ threw = "none"
  /\ inputData = <<>>
  /\ requests = <<>>
  /\ runningLoader = "null"
  /\ nLoad = 0
  /\ nLoadend = 0
  /\ aborting = FALSE
  /\ lastRun = 0
  /\ isLoading = FALSE
  /\ dirReq = "none"
  /\ dirList = NoList
  /\ earlierRequests = <<>>
  /\ earlierLastRun = 0
  /\ StandaloneInit
  /\ loaderList \in LoaderLists
  /\ log = <<>>
  /\ ops = <<>>

NextSelect ==
  \/ \E d \in DirectData, o \in Options, startAborts \in BOOLEAN : Load(d, o, startAborts)
  \/ \E i \in 1..MaxN, errorAborts \in BOOLEAN : FetchError(i, errorAborts)
  \/ \E i \in 1..MaxN, status \in Statuses, beh \in SchedulerBehaviours : FetchLoad(i, status, beh)
  \/ AbortCall

SpecSelect == InitSelect /\ [][NextSelect]_vars


----------------------------------------------------------------------------
\* Reading the history.

\* The number of entries e of the history l.
CountIn(l, e) == Cardinality({j \in 1..Len(l) : l[j].ev = e})

\* The number of entries e of the history l about item i.
CountFor(l, e, i) == Cardinality({j \in 1..Len(l) : l[j].ev = e /\ l[j].src = i})

\* The number of entries e of the history l about item i with detail x.
CountOf(l, e, i, x) ==
  Cardinality({j \in 1..Len(l) : l[j].ev = e /\ l[j].src = i /\ l[j].info = x})

\* The number of resources load was called with.
NResources == Len(arg.urls)

\* The items whose fetch is in flight.
InFlight == {i \in 1..Len(requests) : requests[i] = "sent"}

\* load returned normally on the direct path with a batch of at least one url.
BatchRunning == pc = "called" /\ threw = "none" /\ Len(requests) >= 1

\* abort() was called after the requests of the batch were created.
AbortedAfterDispatch ==
  \E j \in 1..Len(log) : log[j].ev = "abort()" /\ log[j].info # "onloadstart"

\* abort() was called from the onloadstart callback.
AbortedInLoadStart ==
  \E j \in 1..Len(log) : log[j].ev = "abort()" /\ log[j].info = "onloadstart"

\* The decode of item i ran and did not end in the loader's catch block.
DecodeSucceeded(i) ==
  CountFor(log, "decode", i) = 1 /\ CountOf(log, "onerror", i, "decode") = 0

\* The decode of item i ended in the loader's catch block.
DecodeFailed(i) == CountOf(log, "onerror", i, "decode") > 0

\* The fetch of item i ended with a failure status, a transport error or an abort.
FetchFailed(i) ==
  \/ CountOf(log, "load", i, "404") > 0
  \/ CountOf(log, "onerror", i, "transport") > 0
  \/ CountFor(log, "onabort", i) > 0

----------------------------------------------------------------------------
\* C1: with a configured batchSize k >= 1 and N resources, the number of
\* requests that are sent and have not reached their end is at most
\* min(k, N) in every reachable state (and at most N with no batchSize).
C1_WindowBound ==
  Cardinality(InFlight) <=
    (IF opts.hasBatchSize /\ opts.batchSize >= 1
     THEN Min(opts.batchSize, NResources)
     ELSE NResources)

\* The window of size 2 slid once over 3 resources and is full again.
C1_Witness ==
  /\ opts.hasBatchSize /\ opts.batchSize = 2
  /\ Len(requests) = 3
  /\ requests[1] = "done" /\ requests[2] = "sent" /\ requests[3] = "sent"


----------------------------------------------------------------------------
\* C2: for a non-empty homogeneous batch in which abort is not called and
\* every fetch reached an end (success, failure status or transport error),
\* onloadend fired exactly once.
C2_LoadendOnceWhenAllEnded ==
  (/\ BatchRunning
   /\ CountIn(log, "abort()") = 0
   /\ \A i \in 1..Len(requests) : requests[i] = "done")
  => CountIn(log, "onloadend") = 1

----------------------------------------------------------------------------
\* C3: within one load call onload fires at most once, it has fired exactly
\* when the decode of every item succeeded, and it has not fired when some
\* item ended in a fetch error or a decode error.
C3_OnloadIffAllDecoded ==
  pc = "called" =>
    /\ CountIn(log, "onload") <= 1
    /\ CountIn(log, "onload") = 1 <=>
         (NResources >= 1 /\ \A i \in 1..NResources : DecodeSucceeded(i))
    /\ (\E i \in 1..NResources : FetchFailed(i) \/ DecodeFailed(i))
         => CountIn(log, "onload") = 0

\* onload fired for a batch of at least two items.
C3_Witness ==
  /\ CountIn(log, "onload") = 1
  /\ Len(inputData) >= 2
  /\ \A i \in 1..Len(inputData) : DecodeSucceeded(i)

----------------------------------------------------------------------------
\* C4: when the fetch of an item ends with a failure status and abort is
\* not called, onerror fired once for that item with the status in its
\* text, the item was not decoded, it counted two load ends, onload did not
\* fire, and onloadend fired once when every fetch has ended.
C4_HttpFailureReported ==
  \A i \in 1..Len(requests) :
    (CountOf(log, "load", i, "404") = 1 /\ CountIn(log, "abort()") = 0) =>
      /\ CountOf(log, "onerror", i, "404") = 1
      /\ CountFor(log, "onerror", i) = 1
      /\ CountFor(log, "decode", i) = 0
      /\ CountFor(log, "addLoadend", i) = 2
      /\ CountIn(log, "onload") = 0
      /\ (\A j \in 1..Len(requests) : requests[j] = "done")
           => CountIn(log, "onloadend") = 1

----------------------------------------------------------------------------
\* C5: once abort() was called on a running direct load, no request is sent
\* any more: no send follows such an abort() in the history.
C5_NoSendAfterAbort ==
  \A j, k \in 1..Len(log) :
    (j < k /\ log[j].ev = "abort()" /\ log[j].info # "onloadstart")
      => log[k].ev # "send"

\* abort() cancelled a request in flight, whose loadend came while another
\* request was still queued, and the queued one stays unsent.
C5_Witness ==
  /\ aborting
  /\ \E i, j \in 1..Len(requests) :
       /\ requests[i] = "unsent" /\ CountOf(log, "addLoadend", i, "fetch") = 1
       /\ requests[j] = "opened"


----------------------------------------------------------------------------
\* C6: after abort() on a batch with fetches in flight or still queued,
\* onloadend eventually fires. After such an abort nothing is in flight and
\* nothing is sent any more, so no further event can raise it: it must
\* have fired by then.
C6_LoadendAfterAbort ==
  (/\ BatchRunning
   /\ AbortedAfterDispatch
   /\ \E i \in 1..Len(requests) : requests[i] \in {"unsent", "opened"}
   /\ InFlight = {})
  => CountIn(log, "onloadend") >= 1

----------------------------------------------------------------------------
\* C7: in a task in which abort() is called, every request that is in
\* flight when the task starts and is not the one whose end the task
\* handles raises onabort once with its resource as source and no onerror,
\* and has raised onabort once in all; a request that was done stays done
\* and raises no onabort.
C7_AbortCancelsInFlight ==
  [][(pc = "called" /\ CountIn(log', "abort()") > CountIn(log, "abort()")) =>
      \A i \in 1..Len(requests) :
        /\ (requests[i] = "sent" /\ ops'[Len(ops')].i # i) =>
             /\ CountFor(log', "onabort", i) = CountFor(log, "onabort", i) + 1
             /\ CountFor(log', "onabort", i) = 1
             /\ CountFor(log', "onerror", i) = CountFor(log, "onerror", i)
             /\ CountFor(log', "onerror", i) = 0
        /\ (requests[i] = "done" \/ ops'[Len(ops')].i = i) =>
             /\ requests'[i] = "done"
             /\ CountFor(log', "onabort", i) = CountFor(log, "onabort", i)
             /\ CountFor(log', "onabort", i) = 0]_vars

\* abort() cancelled one request in flight while another was already done.
C7_Witness ==
  /\ aborting
  /\ \E i, j \in 1..Len(requests) :
       /\ requests[i] = "unsent" /\ CountFor(log, "onabort", i) = 1
       /\ requests[j] = "done" /\ CountFor(log, "onabort", j) = 0

----------------------------------------------------------------------------
\* C8: abort() called from the onloadstart callback, before any request of
\* the batch is sent, results in no request of the batch being sent.
C8_StartAbortSendsNothing ==
  AbortedInLoadStart => CountIn(log, "send") = 0

----------------------------------------------------------------------------
\* C9: a top level abort() that directly follows another one changes
\* nothing in the scheduler, the requests or the loader and raises no
\* callback; a top level abort() called with no request in flight and the
\* loader not loading changes nothing but the aborting flag, which is set.
AbortOnlyRecorded ==
  /\ UNCHANGED <<inputData, requests, runningLoader, nLoad, nLoadend,
                 lastRun, isLoading, dirReq, threw, pc, arg, opts, loaderList>>
  /\ aborting'
  /\ log' = Append(log, [ev |-> "abort()", src |-> 0, info |-> "owner"])

C9_AbortIdempotent ==
  [][(ops' = Append(ops, AbortOp)) =>
      /\ (Len(ops) > 0 /\ ops[Len(ops)] = AbortOp) => (AbortOnlyRecorded /\ aborting)
      /\ (InFlight = {} /\ ~isLoading) => AbortOnlyRecorded]_vars

\* A second abort() directly after one that cancelled a request in flight.
C9_Witness ==
  /\ Len(ops) >= 3
  /\ ops[Len(ops)] = AbortOp
  /\ ops[Len(ops) - 1] = AbortOp
  /\ \E i \in 1..Len(requests) : requests[i] = "unsent"
  /\ \E i \in 1..Len(requests) : requests[i] = "done"

----------------------------------------------------------------------------
\* C10: load called with an empty or undefined resource list on the direct
\* path raises a synchronous error.
C10_EmptyFailsFast ==
  (pc = "called" /\ (~arg.defined \/ Len(arg.urls) = 0)) => threw # "none"

\* C10, amended: load called with an empty list raises no error: after
\* onloadstart it returns with nothing stored, no request created and no
\* other callback; with an undefined list it raises a TypeError.
C10_EmptyReturnsSilently ==
  /\ (pc = "called" /\ arg.defined /\ Len(arg.urls) = 0) =>
       /\ threw = "none"
       /\ inputData = <<>> /\ requests = <<>> /\ runningLoader = "null"
       /\ nLoad = 0 /\ nLoadend = 0 /\ dirReq = "none"
       /\ \A j \in 1..Len(log) : log[j].ev \in {"onloadstart", "abort()"}
       /\ CountIn(log, "onloadstart") = 1
  /\ (pc = "called" /\ ~arg.defined) =>
       /\ threw = "TypeError"
       /\ requests = <<>>
       /\ CountIn(log, "onloadstart") = 1

\* load returned from a call with an empty list.
C10_Witness ==
  /\ pc = "called" /\ arg.defined /\ Len(arg.urls) = 0
  /\ threw = "none"
  /\ CountIn(log, "onloadstart") = 1


----------------------------------------------------------------------------
\* C11: the loader of a batch is selected once, and it is the first loader
\* of the registered list, in registration order, that can load the first
\* url; when no registered loader can, load raises the 'no loader found'
\* error with no request created or sent and with no onerror, onabort or
\* onloadend raised, then or later.
C11_FirstLoaderOrError ==
  (pc = "called" /\ arg.defined /\ Len(arg.urls) >= 1) =>
    LET accepting == {l \in 1..Len(loaderList) :
                        LoaderCanLoadUrl(loaderList[l], arg.urls[1], opts)}
        selected == {j \in 1..Len(log) : log[j].ev = "select"}
    IN IF accepting = {}
       THEN /\ threw = "NoLoader"
            /\ selected = {}
            /\ requests = <<>>
            /\ runningLoader = "null"
            /\ \A j \in 1..Len(log) : log[j].ev \in {"onloadstart", "abort()"}
       ELSE /\ threw # "NoLoader"
            /\ Cardinality(selected) = 1
            /\ \A j \in selected :
                 /\ log[j].src \in accepting
                 /\ \A l \in accepting : log[j].src <= l
                 /\ runningLoader = loaderList[log[j].src]
            /\ \A j \in 1..Len(log) : \A k \in selected :
                 log[j].ev = "send" => k < j

\* The second registered loader was selected, after the first refused the
\* url, and the requests of the batch were sent.
C11_Witness ==
  /\ loaderList = <<"OtherLoader", "JSONTextLoader">>
  /\ CountFor(log, "select", 2) = 1
  /\ Len(requests) = 2
  /\ \A i \in 1..2 : requests[i] = "done"


----------------------------------------------------------------------------
\* The urls of the batch, after the first, that the loader selected from
\* the first url cannot load.
Rejected ==
  {i \in 2..NResources : ~LoaderCanLoadUrl(runningLoader, arg.urls[i], opts)}

\* load was called with a batch whose first url has a loader and one of
\* whose later urls that loader cannot load.
Heterogeneous ==
  /\ pc = "called" /\ arg.defined /\ NResources >= 2
  /\ runningLoader # "null"
  /\ Rejected # {}

\* C12: a later url the selected loader cannot load makes load raise a
\* synchronous error, at the dispatch of that item: the items before it have
\* been sent.
C12_RejectedMidFlight ==
  Heterogeneous =>
    /\ threw = "DifferentType"
    /\ \A r \in Rejected : (\A q \in Rejected : r <= q) =>
         \A i \in 1..(r - 1) : CountFor(log, "send", i) = 1

\* C12, amended: a later url the selected loader cannot load makes load
\* raise a synchronous error in the loop that creates the requests, before
\* any request of the batch is sent: the per-batch state was reset, the
\* requests of the urls before it are created and stored but none is sent,
\* then or later, and no callback but onloadstart is raised.
C12_RejectedBeforeDispatch ==
  Heterogeneous =>
    /\ threw = "DifferentType"
    /\ inputData = arg.urls
    /\ CountIn(log, "send") = 0
    /\ \A r \in Rejected : (\A q \in Rejected : r <= q) =>
         /\ Len(requests) = r - 1
         /\ \A i \in 1..(r - 1) : requests[i] = "opened"
    /\ \A j \in 1..Len(log) : log[j].ev \in {"onloadstart", "abort()", "select"}

\* load threw on the third url of a batch, with two requests created.
C12_Witness ==
  /\ Heterogeneous
  /\ threw = "DifferentType"
  /\ NResources = 3
  /\ Len(requests) = 2


----------------------------------------------------------------------------
\* The callbacks of the owner among the entries of the history.
IsCallback(e) ==
  e \in {"onloadstart", "onprogress", "onloaditem", "onload", "onloadend",
         "onerror", "onabort"}

\* The positions of the entries e of the history.
Positions(e) == {j \in 1..Len(log) : log[j].ev = e}

\* Every fetch of the batch ended with a success status, every decode
\* succeeded, and abort() was not called.
FullySuccessful ==
  /\ BatchRunning
  /\ CountIn(log, "abort()") = 0
  /\ \A i \in 1..Len(requests) :
       /\ requests[i] = "done"
       /\ CountOf(log, "load", i, "success") = 1
       /\ DecodeSucceeded(i)

\* C16: in a fully successful load of N items, onloadstart is the first
\* callback, onloaditem is called once per index, every onloaditem comes
\* before the one onload, and the one onloadend comes after onload and is
\* the last callback.
C16_SuccessfulLoadOrder ==
  FullySuccessful =>
    /\ log[1].ev = "onloadstart" /\ CountIn(log, "onloadstart") = 1
    /\ CountIn(log, "onloaditem") = NResources
    /\ \A i \in 1..NResources : CountFor(log, "onloaditem", i) = 1
    /\ CountIn(log, "onload") = 1
    /\ \A j \in Positions("onloaditem") : \A k \in Positions("onload") : j < k
    /\ CountIn(log, "onloadend") = 1
    /\ \A j \in Positions("onload") : \A k \in Positions("onloadend") : j < k
    /\ \A k \in Positions("onloadend") :
         \A j \in 1..Len(log) : (IsCallback(log[j].ev) /\ j # k) => j < k
    /\ CountIn(log, "onerror") = 0 /\ CountIn(log, "onabort") = 0

\* Three items were loaded, the second one first.
C16_Witness ==
  /\ FullySuccessful
  /\ NResources = 3
  /\ \E j \in Positions("onloaditem") : \E k \in Positions("onloaditem") :
       j < k /\ log[j].src = 2 /\ log[k].src = 1

----------------------------------------------------------------------------
\* C17: within one load call the requests are sent in strictly ascending
\* index order, and send is called at most once on each request, whatever
\* the order in which the requests in flight end.
C17_AscendingDispatch ==
  /\ \A j, k \in Positions("send") : j < k => log[j].src < log[k].src
  /\ \A j \in 1..Len(log) :
       ~(log[j].ev = "uncaught" /\ log[j].info = "InvalidStateError")

\* With a window of two over three items, the second request ended before
\* the first, and the third was sent.
C17_Witness ==
  /\ Len(requests) = 3
  /\ requests[1] = "sent" /\ requests[2] = "done" /\ requests[3] = "sent"
  /\ opts.hasBatchSize /\ opts.batchSize = 2

----------------------------------------------------------------------------
\* The requests that were created and not sent.
Queued == {i \in 1..Len(requests) : requests[i] = "opened"}

\* C18: with no abort, a task in which a request in flight ends while
\* requests are queued sends the first queued request, in index order, and
\* no other; and once nothing is in flight, nothing is queued: every
\* request of the batch was sent.
C18_EndSendsNext ==
  [][(BatchRunning /\ CountIn(log', "abort()") = 0) =>
      /\ \A i \in InFlight :
           (requests'[i] = "done" /\ Queued # {}) =>
             \E m \in Queued :
               /\ \A q \in Queued : m <= q
               /\ requests'[m] = "sent"
               /\ \A q \in Queued \ {m} : requests'[q] = "opened"
      /\ ({i \in 1..Len(requests') : requests'[i] = "sent"} = {}) =>
           \A i \in 1..Len(requests') : requests'[i] = "done"]_vars

\* A window of one went over three items: each end sent the next item.
C18_Witness ==
  /\ BatchRunning
  /\ CountIn(log, "abort()") = 0
  /\ opts.hasBatchSize /\ opts.batchSize = 1
  /\ Len(requests) = 3
  /\ \A i \in 1..3 : requests[i] = "done" /\ CountFor(log, "send", i) = 1

----------------------------------------------------------------------------
\* C19: the decode of item i is called at most once, it was called exactly
\* when the fetch of i ended in a load event with status 200 or 0, after
\* that event and with the request done; an item whose fetch ended with a
\* failure status, a transport error or an abort is never decoded.
C19_DecodeIffSuccess ==
  \A i \in 1..Len(requests) :
    /\ CountFor(log, "decode", i) <= 1
    /\ CountFor(log, "decode", i) = 1 <=> CountOf(log, "load", i, "success") = 1
    /\ \A k \in Positions("decode") : log[k].src = i =>
         /\ requests[i] = "done"
         /\ \E j \in Positions("load") : j < k /\ log[j].src = i
    /\ FetchFailed(i) => CountFor(log, "decode", i) = 0

\* One item was decoded, one ended with a failure status and one with a
\* transport error.
C19_Witness ==
  /\ Len(requests) = 3
  /\ \E i, j, k \in 1..3 :
       /\ CountFor(log, "decode", i) = 1
       /\ CountOf(log, "load", j, "404") = 1
       /\ CountOf(log, "onerror", k, "transport") = 1


----------------------------------------------------------------------------
\* The DICOMDIR request was sent and ended with a failure status, with a
\* transport error, or with a response that does not parse.
ManifestFailed ==
  \/ CountOf(log, "load", 0, "404") = 1
  \/ CountOf(log, "error", 0, "DICOMDIR") = 1
  \/ CountOf(log, "uncaught", 0, "ParseError") = 1

\* C13: every failure of the DICOMDIR request or of the parse of its
\* response calls onerror with the DICOMDIR url as source, then onloadend
\* exactly once, and no request for a url of the list is sent.
C13_ManifestFailureReported ==
  ManifestFailed =>
    /\ CountOf(log, "onerror", 0, "DICOMDIR") = 1
    /\ CountIn(log, "onloadend") = 1
    /\ \A j \in Positions("onerror") : \A k \in Positions("onloadend") : j < k
    /\ \A j \in Positions("send") : log[j].src = 0

\* The part of C13 the code keeps: the failures of the request itself.
C13_FetchFailureReported ==
  (CountOf(log, "load", 0, "404") = 1 \/ CountOf(log, "error", 0, "DICOMDIR") = 1) =>
    /\ CountOf(log, "onerror", 0, "DICOMDIR") = 1
    /\ CountIn(log, "onloadend") = 1
    /\ \A j \in Positions("onerror") : \A k \in Positions("onloadend") : j < k
    /\ \A j \in Positions("send") : log[j].src = 0


----------------------------------------------------------------------------
\* The entries of the history that end the DICOMDIR request.
ManifestEnds ==
  {j \in 1..Len(log) : log[j].ev \in {"load", "error", "abort"} /\ log[j].src = 0}

\* The abort() calls made while the DICOMDIR request was in flight.
AbortsDuringManifest ==
  {j \in Positions("abort()") :
     /\ \E i \in Positions("send") : i < j /\ log[i].src = 0
     /\ \A k \in ManifestEnds : j < k}

\* C20: abort() called while the DICOMDIR request is in flight cancels that
\* request (it ends in an abort, it delivers no response), and no request
\* for a url of the list is sent afterwards.
C20_AbortCancelsManifest ==
  \A j \in AbortsDuringManifest :
    /\ dirReq # "sent"
    /\ \A k \in ManifestEnds : log[k].ev = "abort"
    /\ \A k \in Positions("send") : j < k => log[k].src = 0


----------------------------------------------------------------------------
\* The loader as constructed, with the registered loaders of this run.
FreshSt ==
  [inputData |-> <<>>, requests |-> <<>>, runningLoader |-> "null",
   nLoad |-> 0, nLoadend |-> 0, aborting |-> FALSE, lastRun |-> 0,
   isLoading |-> FALSE, dirReq |-> "none", threw |-> "none", log |-> <<>>,
   loaderList |-> loaderList]

\* The loader after a direct load of the urls u with options o on a fresh
\* loader; startAborts as in LoadCall.
DirectLoad(u, o, startAborts) ==
  LoadCall(FreshSt, [defined |-> TRUE, urls |-> u], o, startAborts)

\* The callbacks of the owner in the history l, in order.
Callbacks(l) == SelectSeq(l, LAMBDA e : IsCallback(e.ev))

\* The requests of items sent in the history l, in order.
Sends(l) == SelectSeq(l, LAMBDA e : e.ev = "send" /\ e.src > 0)

\* The error that left a task uncaught in the history l, "none" without one.
Uncaught(l) ==
  IF l # <<>> /\ l[Len(l)].ev = "uncaught" THEN l[Len(l)].info ELSE "none"

\* The loader after this step is the loader d after a direct load: the
\* direct load took the normal path, the per-batch state, the callbacks
\* made and the requests sent are the same, and the direct load threw what
\* this step left uncaught. What the tasks after this step do depends on
\* that state only.
SameAsDirect(d) ==
  /\ d.dirReq = "none"
  /\ inputData' = d.inputData
  /\ requests' = d.requests
  /\ runningLoader' = d.runningLoader
  /\ nLoad' = d.nLoad /\ nLoadend' = d.nLoadend
  /\ aborting' = d.aborting
  /\ lastRun' = d.lastRun
  /\ isLoading' = d.isLoading
  /\ Callbacks(log') = Callbacks(d.log)
  /\ Sends(log') = Sends(d.log)
  /\ Uncaught(log') = d.threw

\* load took the DICOMDIR path exactly for one url named DICOMDIR.
ManifestOnlyWhenSingle ==
  (pc = "idle" /\ pc' = "called" /\ arg'.defined) =>
    (dirReq' = "sent" <=> (Len(arg'.urls) = 1 /\ IsDicomDir(arg'.urls[1])))

\* The step in which the DICOMDIR response is parsed to a list.
ManifestExpanded == dirReq = "sent" /\ dirReq' = "done" /\ dirList'.parsed

\* C14 as stated: load takes the DICOMDIR path only for one url named
\* DICOMDIR, and the load of every list a DICOMDIR parses to gives the
\* callbacks of a direct load of that list with the same options (an
\* abort() before the list is loaded standing for one in onloadstart).
C14_ManifestAsDirectLoad ==
  [][/\ ManifestOnlyWhenSingle
     /\ ManifestExpanded => SameAsDirect(DirectLoad(dirList'.urls, opts, aborting))]_vars

\* C14 amended: the same, for the lists that are not one url named DICOMDIR.
C14_ManifestAsDirectLoadOfUrls ==
  [][/\ ManifestOnlyWhenSingle
     /\ (ManifestExpanded /\ ~(Len(dirList'.urls) = 1 /\ IsDicomDir(dirList'.urls[1])))
          => SameAsDirect(DirectLoad(dirList'.urls, opts, aborting))]_vars

\* A DICOMDIR listing three urls was loaded with a window of two, all the
\* items were loaded and onload was called.
C14_Witness ==
  /\ arg.urls = <<DicomDirUrl>>
  /\ dirList.parsed /\ Len(dirList.urls) = 3
  /\ opts.hasBatchSize /\ opts.batchSize = 2
  /\ CountIn(log, "onloaditem") = 3
  /\ CountIn(log, "onload") = 1


----------------------------------------------------------------------------
\* A request of the load call before the last one ends in this step.
EarlierFetchEnds ==
  \E i \in 1..Len(earlierRequests) :
    earlierRequests[i] = "sent" /\ earlierRequests'[i] = "done"

\* C15: a second load call resets the counters, the abort flag, the list
\* of requests and the loader for its batch, and the end of a request of
\* the first call leaves the counters of the second batch as they are,
\* sends no request of the second batch, and calls neither onload nor
\* onloadend.
C15_BatchesIsolated ==
  [][/\ (NLoads = 1 /\ Len(ops') = Len(ops) + 1 /\ ops'[Len(ops')].op = "load") =>
          /\ nLoad' = 0 /\ nLoadend' = 0 /\ ~aborting'
          /\ Len(requests') = Len(arg'.urls)
          /\ \A i \in 1..Len(requests') : requests'[i] \in {"opened", "sent"}
          /\ runningLoader' = "JSONTextLoader"
     /\ EarlierFetchEnds =>
          /\ nLoad' = nLoad /\ nLoadend' = nLoadend
          /\ requests' = requests
          /\ CountIn(log', "onload") = CountIn(log, "onload")
          /\ CountIn(log', "onloadend") = CountIn(log, "onloadend")]_vars


----------------------------------------------------------------------------
\* The events the loader raised during its call number c, in order.
EventsOf(c) == SelectSeq(jsonLoader.events, LAMBDA e : e.call = c)

\* The calls of load among the calls made on the loader.
LoadCalls ==
  {c \in 1..jsonLoader.calls : EventsOf(c)[1].ev = "onloadstart"}

\* The lifecycle of C21 for the events es of one call of load.
LoadLifecycle(es) ==
  /\ es[1].ev = "onloadstart"
  /\ Cardinality({j \in 1..Len(es) : es[j].ev = "onloadend"}) = 1
  /\ es[Len(es)].ev = "onloadend"
  /\ \A j \in 1..(Len(es) - 1) : es[j].loading
  /\ ~es[Len(es)].loading
  /\ (\E j \in 1..Len(es) : es[j].outcome = "throws") =>
       \E j \in 1..(Len(es) - 1) :
         /\ es[j].ev = "onerror" /\ es[j].error
         /\ es[j].source = es[1].source

\* C21: every call of load raises onloadstart first and onloadend exactly
\* once, as its last event; isLoading() is true for the handlers in
\* between and false in onloadend and after the call; when onprogress or
\* onload throws, onerror is raised with the error and the origin before
\* onloadend, and load returns.
C21_LoadLifecycle ==
  /\ ~jsonLoader.isLoading /\ ~jsonLoader.threw
  /\ \A c \in LoadCalls : LoadLifecycle(EventsOf(c))

\* The part of C21 the code keeps: the calls in which no handler calls
\* abort().
C21_LoadLifecycleWithoutAbort ==
  /\ ~jsonLoader.isLoading /\ ~jsonLoader.threw
  /\ \A c \in LoadCalls :
       (\A j \in 1..Len(EventsOf(c)) : EventsOf(c)[j].outcome # "aborts") =>
         LoadLifecycle(EventsOf(c))


----------------------------------------------------------------------------
\* Some header of h is an Accept header whose value starts with
\* application/json or with application/dicom+json.
AcceptsJson(h) ==
  \E k \in 1..Len(h) :
    /\ h[k].name = "Accept"
    /\ StartsWith(h[k].value, AppJson) \/ StartsWith(h[k].value, DicomJson)

\* C22: with options.requestHeaders, canLoadUrl returns true exactly when
\* some header is an Accept header whose value starts with
\* application/json or application/dicom+json, whatever the url; without,
\* exactly when the extension of the url's path is json.
C22_CanLoadUrl ==
  canLoad.done =>
    IF canLoad.options.defined /\ canLoad.options.hasRequestHeaders
    THEN canLoad.result = AcceptsJson(canLoad.options.requestHeaders)
    ELSE canLoad.result = (FileExtension(canLoad.url) = "json")

\* What the code does instead: with options.requestHeaders the result is
\* false, whatever the headers and the url.
C22_HeadersNeverAccepted ==
  (canLoad.done /\ canLoad.options.defined /\ canLoad.options.hasRequestHeaders)
    => ~canLoad.result


----------------------------------------------------------------------------
\* The last id given to mergeObjects was given before.
RepeatedId ==
  \E j \in 1..(Len(merge.fed) - 1) : merge.fed[j] = merge.fed[Len(merge.fed)]

\* The id entry of the result is {valueKey: ids, merged: true}.
IdEntryIs(ids) ==
  /\ DOMAIN merge.acc[merge.idKey] = {merge.valueKey, "merged"}
  /\ merge.acc[merge.idKey][merge.valueKey] = Arr(ids)
  /\ merge.acc[merge.idKey]["merged"]

\* The merges of objects with new ids return, and the id entry lists the
\* ids in the order given; a merge with an id given before throws.
MergeChains ==
  IF RepeatedId THEN merge.threw # "none"
  ELSE /\ merge.threw = "none"
       /\ Len(merge.fed) >= 2 => IdEntryIs(merge.fed)

\* C23: for every idKey and valueKey, the merge of two unmerged objects
\* with distinct ids has the id entry {valueKey: [id1, id2], merged: true},
\* the result can be merged with a third object of a new id, giving the
\* ids [id1, id2, id3], and a merge with an id given before throws.
C23_MergeChains == MergeChains

\* The part of C23 the code keeps: the same when valueKey is 'value'.
C23_MergeChainsWithValue == merge.valueKey = "value" => MergeChains

====
